---------------------------- MODULE Spec2Model ----------------------------
(***************************************************************************)
(* Model of the ZC GPA calculator (src/app.js).                            *)
(*                                                                         *)
(* JavaScript values are records [t, n, d]: t is the typeof tag, and a     *)
(* number is the exact rational n/d in lowest terms with d > 0.  NaN is    *)
(* the number with d = 0.  IEEE-754 rounding is abstracted away: the       *)
(* literal 3.33 is the rational 333/100 and 10/3 is the rational 10/3.     *)
(***************************************************************************)
EXTENDS Integers, Sequences, FiniteSets, TLC

(***************************************************************************)
(* Bounds of the model                                                     *)
(***************************************************************************)
MaxCourses == 2

ScoreDenom == 2

(***************************************************************************)
(* Numbers                                                                 *)
(***************************************************************************)
Abs(x) == IF x < 0 THEN -x ELSE x

RECURSIVE GCD(_, _)
GCD(a, b) == IF b = 0 THEN a ELSE GCD(b, a % b)

NaN == [t |-> "number", n |-> 0, d |-> 0]

Null == [t |-> "null", n |-> 0, d |-> 0]

Undefined == [t |-> "undefined", n |-> 0, d |-> 0]

Num(n, d) ==
    IF d = 0 THEN NaN
    ELSE LET g == GCD(Abs(n), Abs(d))
             s == IF d < 0 THEN -1 ELSE 1
         IN  [t |-> "number", n |-> (s * n) \div g, d |-> (s * d) \div g]

IsNaN(x) == x.d = 0

\* The global isNaN, which coerces its argument: null and the text of a number
\* input (a numeric literal or empty) become numbers, undefined does not.
isNaN(x) == IF x.t = "number" THEN IsNaN(x) ELSE x.t \notin {"null", "string"}

Add(x, y) == IF IsNaN(x) \/ IsNaN(y) THEN NaN
             ELSE Num(x.n * y.d + y.n * x.d, x.d * y.d)

Mul(x, y) == IF IsNaN(x) \/ IsNaN(y) THEN NaN
             ELSE Num(x.n * y.n, x.d * y.d)

\* Only ever applied with a divisor > 0 (both divisions in the source are guarded).
Div(x, y) == IF IsNaN(x) \/ IsNaN(y) \/ y.n = 0 THEN NaN
             ELSE Num(x.n * y.d, x.d * y.n)

Gt(x, y) == ~IsNaN(x) /\ ~IsNaN(y) /\ x.n * y.d > y.n * x.d

Ge(x, y) == ~IsNaN(x) /\ ~IsNaN(y) /\ x.n * y.d >= y.n * x.d

Lt(x, y) == Gt(y, x)

Le(x, y) == Ge(y, x)

MathMax(x, y) == IF IsNaN(x) \/ IsNaN(y) THEN NaN ELSE IF Ge(x, y) THEN x ELSE y

MathMin(x, y) == IF IsNaN(x) \/ IsNaN(y) THEN NaN ELSE IF Le(x, y) THEN x ELSE y

\* The nullish-coalescing operator  a ?? b
Coalesce(a, b) == IF a.t \in {"undefined", "null"} THEN b ELSE a

\* A default parameter value applies when the argument is omitted (undefined).
DefaultParam(a, dflt) == IF a.t = "undefined" THEN dflt ELSE a

(***************************************************************************)
(* Grade mapping                                                           *)
(***************************************************************************)
ScoreMin == 0

ScoreMax == 100

\* Variant: the A threshold tested with > instead of >=.
mapNumericToGradePoint_StrictA(score) ==
    IF score.t # "number" \/ isNaN(score)
    THEN [letter |-> "Invalid", point |-> Num(0, 1)]
    ELSE LET s == MathMax(Num(ScoreMin, 1), MathMin(Num(ScoreMax, 1), score))
         IN  IF Gt(s, Num(95, 1)) THEN [letter |-> "A",  point |-> Num(4, 1)]
             ELSE IF Ge(s, Num(90, 1)) THEN [letter |-> "A-", point |-> Num(11, 3)]
             ELSE IF Ge(s, Num(85, 1)) THEN [letter |-> "B+", point |-> Num(10, 3)]
             ELSE IF Ge(s, Num(80, 1)) THEN [letter |-> "B",  point |-> Num(3, 1)]
             ELSE IF Ge(s, Num(75, 1)) THEN [letter |-> "B-", point |-> Num(8, 3)]
             ELSE IF Ge(s, Num(70, 1)) THEN [letter |-> "C+", point |-> Num(7, 3)]
             ELSE IF Ge(s, Num(65, 1)) THEN [letter |-> "C",  point |-> Num(2, 1)]
             ELSE IF Ge(s, Num(60, 1)) THEN [letter |-> "C-", point |-> Num(5, 3)]
             ELSE [letter |-> "F", point |-> Num(0, 1)]

\* Variant: the type is checked but NaN is not, so NaN falls through to F.
mapNumericToGradePoint_NoNaNCheck(score) ==
    IF score.t # "number"
    THEN [letter |-> "Invalid", point |-> Num(0, 1)]
    ELSE LET s == MathMax(Num(ScoreMin, 1), MathMin(Num(ScoreMax, 1), score))
         IN  IF Ge(s, Num(95, 1)) THEN [letter |-> "A",  point |-> Num(4, 1)]
             ELSE IF Ge(s, Num(90, 1)) THEN [letter |-> "A-", point |-> Num(11, 3)]
             ELSE IF Ge(s, Num(85, 1)) THEN [letter |-> "B+", point |-> Num(10, 3)]
             ELSE IF Ge(s, Num(80, 1)) THEN [letter |-> "B",  point |-> Num(3, 1)]
             ELSE IF Ge(s, Num(75, 1)) THEN [letter |-> "B-", point |-> Num(8, 3)]
             ELSE IF Ge(s, Num(70, 1)) THEN [letter |-> "C+", point |-> Num(7, 3)]
             ELSE IF Ge(s, Num(65, 1)) THEN [letter |-> "C",  point |-> Num(2, 1)]
             ELSE IF Ge(s, Num(60, 1)) THEN [letter |-> "C-", point |-> Num(5, 3)]
             ELSE [letter |-> "F", point |-> Num(0, 1)]

mapNumericToGradePoint(score) ==
    IF score.t # "number" \/ isNaN(score)
    THEN [letter |-> "Invalid", point |-> Num(0, 1)]
    ELSE LET s == MathMax(Num(ScoreMin, 1), MathMin(Num(ScoreMax, 1), score))
         IN  IF Ge(s, Num(95, 1)) THEN [letter |-> "A",  point |-> Num(4, 1)]
             ELSE IF Ge(s, Num(90, 1)) THEN [letter |-> "A-", point |-> Num(11, 3)]
             ELSE IF Ge(s, Num(85, 1)) THEN [letter |-> "B+", point |-> Num(10, 3)]
             ELSE IF Ge(s, Num(80, 1)) THEN [letter |-> "B",  point |-> Num(3, 1)]
             ELSE IF Ge(s, Num(75, 1)) THEN [letter |-> "B-", point |-> Num(8, 3)]
             ELSE IF Ge(s, Num(70, 1)) THEN [letter |-> "C+", point |-> Num(7, 3)]
             ELSE IF Ge(s, Num(65, 1)) THEN [letter |-> "C",  point |-> Num(2, 1)]
             ELSE IF Ge(s, Num(60, 1)) THEN [letter |-> "C-", point |-> Num(5, 3)]
             ELSE [letter |-> "F", point |-> Num(0, 1)]

\* Variant: the table holds two-decimal approximations instead of fractions.
gradePoints_Rounded ==
    [l \in {"A", "A-", "B+", "B", "B-", "C+", "C", "C-", "F"} |->
        CASE l = "A"  -> Num(4, 1)
          [] l = "A-" -> Num(367, 100)
          [] l = "B+" -> Num(333, 100)
          [] l = "B"  -> Num(3, 1)
          [] l = "B-" -> Num(267, 100)
          [] l = "C+" -> Num(233, 100)
          [] l = "C"  -> Num(2, 1)
          [] l = "C-" -> Num(167, 100)
          [] l = "F"  -> Num(0, 1)]

\* Own properties of the gradePoints object literal.
gradePoints ==
    [l \in {"A", "A-", "B+", "B", "B-", "C+", "C", "C-", "F"} |->
        CASE l = "A"  -> Num(4, 1)
          [] l = "A-" -> Num(11, 3)
          [] l = "B+" -> Num(10, 3)
          [] l = "B"  -> Num(3, 1)
          [] l = "B-" -> Num(8, 3)
          [] l = "C+" -> Num(7, 3)
          [] l = "C"  -> Num(2, 1)
          [] l = "C-" -> Num(5, 3)
          [] l = "F"  -> Num(0, 1)]

\* Properties every object literal inherits from Object.prototype.
ObjectPrototypeKeys ==
    {"constructor", "toString", "valueOf", "hasOwnProperty", "__proto__"}

\* gradePoints[letter]: own property, else inherited property, else undefined.
PropertyLookup(letter) ==
    IF letter \in DOMAIN gradePoints THEN gradePoints[letter]
    ELSE IF letter = "__proto__" THEN [t |-> "object", n |-> 0, d |-> 0]
    ELSE IF letter \in ObjectPrototypeKeys THEN [t |-> "function", n |-> 0, d |-> 0]
    ELSE Undefined

mapLetterToGradePoint(letter) == Coalesce(PropertyLookup(letter), Num(0, 1))

(***************************************************************************)
(* Form values                                                             *)
(***************************************************************************)
\* The text of a number input holding the decimal literal n/d.
Str(n, d) == [Num(n, d) EXCEPT !.t = "string"]

EmptyStr == [t |-> "string", n |-> 0, d |-> 0]

\* parseFloat of the text of a number input (or of undefined).
parseFloat(v) == IF v.t = "string" /\ v.d # 0 THEN [v EXCEPT !.t = "number"] ELSE NaN

\* x || 0  for a number x
OrZero(x) == IF IsNaN(x) \/ x.n = 0 THEN Num(0, 1) ELSE x

\* {...course, ...overrides}
Spread(course, overrides) == overrides @@ course

\* The body of the forEach callback of collectCourseData, for one row.
\* (The course name is display-only and is not modelled.)
collectRow(row) ==
    LET gradeType == row.gradeType
        credits   == OrZero(parseFloat(row.credits))
        score     == IF gradeType = "numeric" THEN parseFloat(row.score) ELSE Null
        mapped    == mapNumericToGradePoint(score)
        letter    == IF gradeType = "numeric"
                     THEN (IF ~isNaN(score) THEN mapped.letter ELSE "F")
                     ELSE row.letter
        gradePoint == IF gradeType = "numeric"
                      THEN (IF ~isNaN(score) THEN mapped.point ELSE Num(0, 1))
                      ELSE (IF letter # "" THEN mapLetterToGradePoint(letter) ELSE Num(0, 1))
    IN  [id |-> row.id, credits |-> credits, score |-> score,
         gradePoint |-> gradePoint, letter |-> letter,
         excluded |-> row.excluded, repeated |-> row.repeated,
         gradeType |-> gradeType]

collectCourseData(rows) == [i \in 1..Len(rows) |-> collectRow(rows[i])]

(***************************************************************************)
(* GPA calculation                                                         *)
(***************************************************************************)
\* Variant: an excluded course is still added to the credit total.
TermStep_CountsExcluded(acc, course) ==
    IF course.excluded
    THEN [acc EXCEPT !.totalCredits = Add(@, course.credits),
                     !.courses =
            Append(@, Spread(course, [qualityPoints |-> Num(0, 1), status |-> "excluded"]))]
    ELSE LET wasCapped  == course.repeated /\ Gt(course.gradePoint, Num(333, 100))
             gradePoint == IF wasCapped THEN Num(333, 100) ELSE course.gradePoint
             letter     == IF wasCapped THEN "B+" ELSE course.letter
             qualityPoints == Mul(course.credits, gradePoint)
         IN  [totalCredits       |-> Add(acc.totalCredits, course.credits),
              totalQualityPoints |-> Add(acc.totalQualityPoints, qualityPoints),
              courses |-> Append(acc.courses,
                  Spread(course, [gradePoint |-> gradePoint, letter |-> letter,
                                  qualityPoints |-> qualityPoints,
                                  wasCapped |-> wasCapped,
                                  status |-> IF wasCapped THEN "capped" ELSE "included"]))]

\* One iteration of the for-of loop of computeTermGPA.
TermStep(acc, course) ==
    IF course.excluded
    THEN [acc EXCEPT !.courses =
            Append(@, Spread(course, [qualityPoints |-> Num(0, 1), status |-> "excluded"]))]
    ELSE LET wasCapped  == course.repeated /\ Gt(course.gradePoint, Num(333, 100))
             gradePoint == IF wasCapped THEN Num(333, 100) ELSE course.gradePoint
             letter     == IF wasCapped THEN "B+" ELSE course.letter
             qualityPoints == Mul(course.credits, gradePoint)
         IN  [totalCredits       |-> Add(acc.totalCredits, course.credits),
              totalQualityPoints |-> Add(acc.totalQualityPoints, qualityPoints),
              courses |-> Append(acc.courses,
                  Spread(course, [gradePoint |-> gradePoint, letter |-> letter,
                                  qualityPoints |-> qualityPoints,
                                  wasCapped |-> wasCapped,
                                  status |-> IF wasCapped THEN "capped" ELSE "included"]))]

RECURSIVE TermLoop(_, _, _)
TermLoop(courseRows, i, acc) ==
    IF i > Len(courseRows) THEN acc
    ELSE TermLoop(courseRows, i + 1, TermStep(acc, courseRows[i]))

\* Variant: the division is not guarded by totalCredits > 0 (0/0 is NaN).
computeTermGPA_Unguarded(courseRows) ==
    LET acc == TermLoop(courseRows, 1,
                   [totalCredits |-> Num(0, 1), totalQualityPoints |-> Num(0, 1),
                    courses |-> << >>])
    IN  [gpa |-> Div(acc.totalQualityPoints, acc.totalCredits),
         totalCredits |-> acc.totalCredits,
         totalQualityPoints |-> acc.totalQualityPoints, courses |-> acc.courses]

computeTermGPA(courseRows) ==
    LET acc == TermLoop(courseRows, 1,
                   [totalCredits |-> Num(0, 1), totalQualityPoints |-> Num(0, 1),
                    courses |-> << >>])
        gpa == IF Gt(acc.totalCredits, Num(0, 1))
               THEN Div(acc.totalQualityPoints, acc.totalCredits)
               ELSE Num(0, 1)
    IN  [gpa |-> gpa, totalCredits |-> acc.totalCredits,
         totalQualityPoints |-> acc.totalQualityPoints, courses |-> acc.courses]

\* Variant: the explicit quality points are tested for truthiness, so 0 counts as absent.
computeNewCGPA_Truthy(prevCGPA, prevCredits, termQualityPoints, termCredits, prevQPArg) ==
    LET prevQualityPoints == DefaultParam(prevQPArg, Null)
        calculatedPrevQP  == IF prevQualityPoints # Null /\ prevQualityPoints # Num(0, 1)
                             THEN prevQualityPoints
                             ELSE Mul(prevCGPA, prevCredits)
        newTotalQualityPoints == Add(calculatedPrevQP, termQualityPoints)
        newTotalCredits       == Add(prevCredits, termCredits)
        cgpa == IF Gt(newTotalCredits, Num(0, 1))
                THEN Div(newTotalQualityPoints, newTotalCredits)
                ELSE Num(0, 1)
    IN  [cgpa |-> cgpa, totalCredits |-> newTotalCredits,
         totalQualityPoints |-> newTotalQualityPoints,
         prevQualityPoints |-> calculatedPrevQP]

\* Variant: the CGPA is divided by the previous credits only.
computeNewCGPA_PrevCreditsOnly(prevCGPA, prevCredits, termQualityPoints, termCredits, prevQPArg) ==
    LET prevQualityPoints == DefaultParam(prevQPArg, Null)
        calculatedPrevQP  == IF prevQualityPoints # Null
                             THEN prevQualityPoints
                             ELSE Mul(prevCGPA, prevCredits)
        newTotalQualityPoints == Add(calculatedPrevQP, termQualityPoints)
        newTotalCredits       == Add(prevCredits, termCredits)
        cgpa == IF Gt(prevCredits, Num(0, 1))
                THEN Div(newTotalQualityPoints, prevCredits)
                ELSE Num(0, 1)
    IN  [cgpa |-> cgpa, totalCredits |-> newTotalCredits,
         totalQualityPoints |-> newTotalQualityPoints,
         prevQualityPoints |-> calculatedPrevQP]

computeNewCGPA(prevCGPA, prevCredits, termQualityPoints, termCredits, prevQPArg) ==
    LET prevQualityPoints == DefaultParam(prevQPArg, Null)
        calculatedPrevQP  == IF prevQualityPoints # Null
                             THEN prevQualityPoints
                             ELSE Mul(prevCGPA, prevCredits)
        newTotalQualityPoints == Add(calculatedPrevQP, termQualityPoints)
        newTotalCredits       == Add(prevCredits, termCredits)
        cgpa == IF Gt(newTotalCredits, Num(0, 1))
                THEN Div(newTotalQualityPoints, newTotalCredits)
                ELSE Num(0, 1)
    IN  [cgpa |-> cgpa, totalCredits |-> newTotalCredits,
         totalQualityPoints |-> newTotalQualityPoints,
         prevQualityPoints |-> calculatedPrevQP]

(***************************************************************************)
(* Validation                                                             *)
(***************************************************************************)
Message(num, msg) == [course |-> num, msg |-> msg]

\* Variant: the credit checks are skipped for an excluded course.
courseErrors_SkipsExcluded(course, num) ==
    IF course.excluded THEN << >>
    ELSE (IF Le(course.credits, Num(0, 1))
            THEN <<Message(num, "Credit hours must be greater than 0.")>> ELSE << >>)
         \o (IF Gt(course.credits, Num(6, 1))
            THEN <<Message(num, "Credit hours cannot exceed 6.")>> ELSE << >>)
         \o (IF course.gradeType = "numeric"
             THEN IF course.score = Null \/ isNaN(course.score)
                  THEN <<Message(num, "Please enter a valid numeric score.")>>
                  ELSE IF Lt(course.score, Num(0, 1)) \/ Gt(course.score, Num(100, 1))
                       THEN <<Message(num, "Score must be between 0 and 100.")>>
                       ELSE << >>
             ELSE IF course.letter = ""
                  THEN <<Message(num, "Please select a letter grade.")>>
                  ELSE << >>)

\* The errors the forEach callback of validateCourses pushes for one course.
courseErrors(course, num) ==
    (IF Le(course.credits, Num(0, 1))
        THEN <<Message(num, "Credit hours must be greater than 0.")>> ELSE << >>)
    \o (IF Gt(course.credits, Num(6, 1))
        THEN <<Message(num, "Credit hours cannot exceed 6.")>> ELSE << >>)
    \o (IF course.excluded THEN << >>
        ELSE IF course.gradeType = "numeric"
             THEN IF course.score = Null \/ isNaN(course.score)
                  THEN <<Message(num, "Please enter a valid numeric score.")>>
                  ELSE IF Lt(course.score, Num(0, 1)) \/ Gt(course.score, Num(100, 1))
                       THEN <<Message(num, "Score must be between 0 and 100.")>>
                       ELSE << >>
             ELSE IF course.letter = ""
                  THEN <<Message(num, "Please select a letter grade.")>>
                  ELSE << >>)

RECURSIVE validateLoop(_, _)
validateLoop(courses, index) ==
    IF index > Len(courses) THEN << >>
    ELSE courseErrors(courses[index], index) \o validateLoop(courses, index + 1)

validateCourses(courses) ==
    IF Len(courses) = 0 THEN <<Message(0, "Please add at least one course.")>>
    ELSE validateLoop(courses, 1)

\* Variant: the upper limit 4 of the previous CGPA is not checked.
validateCGPAInputs_NoUpperLimit(mode, fields) ==
    IF mode # "cgpa" THEN << >>
    ELSE LET prevCGPA    == parseFloat(fields.prevCGPA)
             prevCredits == parseFloat(fields.prevCredits)
         IN  (IF isNaN(prevCGPA) \/ Lt(prevCGPA, Num(0, 1))
                 THEN <<Message(0, "Previous CGPA must be between 0.00 and 4.00.")>>
                 ELSE << >>)
             \o (IF isNaN(prevCredits) \/ Lt(prevCredits, Num(0, 1))
                 THEN <<Message(0, "Previous total credits must be 0 or greater.")>>
                 ELSE << >>)

validateCGPAInputs(mode, fields) ==
    IF mode # "cgpa" THEN << >>
    ELSE LET prevCGPA    == parseFloat(fields.prevCGPA)
             prevCredits == parseFloat(fields.prevCredits)
         IN  (IF isNaN(prevCGPA) \/ Lt(prevCGPA, Num(0, 1)) \/ Gt(prevCGPA, Num(4, 1))
                 THEN <<Message(0, "Previous CGPA must be between 0.00 and 4.00.")>>
                 ELSE << >>)
             \o (IF isNaN(prevCredits) \/ Lt(prevCredits, Num(0, 1))
                 THEN <<Message(0, "Previous total credits must be 0 or greater.")>>
                 ELSE << >>)

\* showErrors: old messages are removed; a non-empty list is shown and hides the results.
showErrors(disp, errors) ==
    IF Len(errors) = 0 THEN [disp EXCEPT !.errorMessage = FALSE]
    ELSE [disp EXCEPT !.errorMessage = TRUE, !.resultsSection = "none"]

\* renderResults, as far as visibility goes.
renderResults(disp) == [disp EXCEPT !.errorMessage = FALSE, !.resultsSection = "block"]

(***************************************************************************)
(* Engine harness: one call of an engine function on inputs drawn in Init  *)
(***************************************************************************)
VARIABLES call, ret

\* The page: state (app.js:173), the rows of #courseList in document order,
\* the rows with a pending removal timeout, the values of the CGPA inputs,
\* the visibility of the message and result blocks, and the record of the
\* handler run in the last step.
VARIABLES state, courseList, timers, form, display, last

engineVars == <<call, ret>>

pageVars == <<state, courseList, timers, form, display, last>>

vars == <<call, ret, state, courseList, timers, form, display, last>>

NoLast == [op |-> "none", outcome |-> "none", courses |-> << >>,
           errors |-> << >>, result |-> << >>]

\* The page as the script finds it when it is loaded.
PageLoaded ==
    /\ state = [mode |-> "term", courses |-> << >>, courseCounter |-> 0]
    /\ courseList = << >>
    /\ timers = {}
    /\ form = [prevCGPA |-> EmptyStr, prevCredits |-> EmptyStr,
               prevQualityPoints |-> EmptyStr]
    /\ display = [resultsSection |-> "none", errorMessage |-> FALSE,
                  emptyMessage |-> "block"]
    /\ last = NoLast

Letters == {"A", "A-", "B+", "B", "B-", "C+", "C", "C-", "F"}

ScoreInputs ==
    {Num(k, ScoreDenom) : k \in 0..(ScoreMax * ScoreDenom)}
        \cup {Num(-1, 1), Num(101, 1), Num(250, 1), NaN, Str(98, 1), Undefined}

LetterInputs == Letters \cup {"", "a", "Z", "constructor", "toString"}

\* Form rows as the user can fill them in (ids are assigned by position).
FormRowInputs ==
    { [id |-> 0, gradeType |-> g.gradeType, credits |-> cr,
       score |-> g.score, letter |-> g.letter, excluded |-> ex, repeated |-> rp] :
        g \in {[gradeType |-> "letter", score |-> Undefined, letter |-> l] : l \in Letters}
              \cup {[gradeType |-> "numeric", score |-> Str(98, 1), letter |-> ""]},
        cr \in {Str(3, 1), Str(1, 2)},
        ex \in BOOLEAN, rp \in BOOLEAN }

\* Form rows for validation: credits and scores inside and outside their ranges.
ValidationRowInputs ==
    { [id |-> 0, gradeType |-> g.gradeType, credits |-> cr,
       score |-> g.score, letter |-> g.letter, excluded |-> ex, repeated |-> FALSE] :
        g \in {[gradeType |-> "letter", score |-> Undefined, letter |-> l] : l \in {"", "A"}}
              \cup {[gradeType |-> "numeric", score |-> v, letter |-> ""] :
                       v \in {EmptyStr, Str(100, 1), Str(101, 1), Str(-1, 1)}},
        cr \in {EmptyStr, Str(6, 1), Str(7, 1), Str(-1, 1)},
        ex \in BOOLEAN }

CGPAInputs ==
    { <<g, c, q, tc, p>> :
        g  \in {Num(0, 1), Num(3, 1), Num(4, 1)},
        c  \in {Num(0, 1), Num(30, 1), Num(-3, 1)},
        q  \in {Num(0, 1), Num(11, 1), Num(999, 100)},
        tc \in {Num(0, 1), Num(3, 1)},
        p  \in {Undefined, Null, Num(0, 1), Num(90, 1), Num(100, 1)} }

Init ==
    /\ PageLoaded
    /\ ret = << >>
    /\ \/ \E s \in ScoreInputs :
            call = [fn |-> "mapNumericToGradePoint", args |-> <<s>>]
       \/ \E l \in LetterInputs :
            call = [fn |-> "mapLetterToGradePoint", args |-> <<l>>]
       \/ \E k \in 0..MaxCourses : \E f \in [1..k -> FormRowInputs] :
            call = [fn |-> "computeTermGPA",
                    args |-> <<collectCourseData([i \in 1..k |-> [f[i] EXCEPT !.id = i]])>>]
       \/ \E a \in CGPAInputs :
            call = [fn |-> "computeNewCGPA", args |-> a]
       \/ \E k \in 0..MaxCourses : \E f \in [1..k -> ValidationRowInputs] :
            call = [fn |-> "validateCourses",
                    args |-> <<collectCourseData([i \in 1..k |-> [f[i] EXCEPT !.id = i]])>>]

CallMapNumeric ==
    /\ call.fn = "mapNumericToGradePoint" /\ ret = << >>
    /\ ret' = <<mapNumericToGradePoint(call.args[1])>>
    /\ UNCHANGED <<call, pageVars>>

CallMapLetter ==
    /\ call.fn = "mapLetterToGradePoint" /\ ret = << >>
    /\ ret' = <<mapLetterToGradePoint(call.args[1])>>
    /\ UNCHANGED <<call, pageVars>>

CallComputeTermGPA ==
    /\ call.fn = "computeTermGPA" /\ ret = << >>
    /\ ret' = <<computeTermGPA(call.args[1])>>
    /\ UNCHANGED <<call, pageVars>>

CallComputeNewCGPA ==
    /\ call.fn = "computeNewCGPA" /\ ret = << >>
    /\ ret' = <<computeNewCGPA(call.args[1], call.args[2], call.args[3],
                               call.args[4], call.args[5])>>
    /\ UNCHANGED <<call, pageVars>>

CallValidateCourses ==
    /\ call.fn = "validateCourses" /\ ret = << >>
    /\ ret' = <<validateCourses(call.args[1])>>
    /\ UNCHANGED <<call, pageVars>>

Next ==
    \/ CallValidateCourses
    \/ CallMapNumeric
    \/ CallMapLetter
    \/ CallComputeTermGPA
    \/ CallComputeNewCGPA

Spec == Init /\ [][Next]_vars

Returned(fn) == call.fn = fn /\ Len(ret) = 1

(***************************************************************************)
(* The page: what the user can enter                                       *)
(***************************************************************************)
MaxCounter == 1

CreditValues == {EmptyStr, Str(3, 1)}

LetterValues == {"", "A"}

ScoreValues == {EmptyStr, Str(98, 1)}

PrevCGPAValues == {EmptyStr, Str(3, 1)}

PrevCreditsValues == {EmptyStr, Str(30, 1)}

PrevQualityPointsValues == {EmptyStr, Str(100, 1)}

\* The row createCourseRowHTML(id) describes: letter select, nothing entered.
createCourseRow(id) ==
    [id |-> id, gradeType |-> "letter", credits |-> EmptyStr, score |-> Undefined,
     letter |-> "", excluded |-> FALSE, repeated |-> FALSE]

RowIndexes == 1..Len(courseList)

RowIds == {courseList[i].id : i \in RowIndexes}

(***************************************************************************)
(* The page: handlers                                                      *)
(***************************************************************************)
\* The focus timeout of addCourse changes no modelled state and is left out.
addCourse_CountsRows ==
    /\ state' = [state EXCEPT !.courseCounter = @ + 1]
    /\ courseList' = <<createCourseRow(Len(courseList) + 1)>> \o courseList
    /\ display' = [display EXCEPT !.emptyMessage = "none"]
    /\ last' = NoLast
    /\ UNCHANGED <<timers, form>>

addCourse ==
    /\ state' = [state EXCEPT !.courseCounter = @ + 1]
    /\ courseList' = <<createCourseRow(state.courseCounter + 1)>> \o courseList
    /\ display' = [display EXCEPT !.emptyMessage = "none"]
    /\ last' = NoLast
    /\ UNCHANGED <<timers, form>>

\* A pending timeout of removeCourse: the row element its closure holds, by the
\* row's id and whether the element is still attached to the course list.
Timeout(id, attached) == [id |-> id, attached |-> attached]

\* The row stays in the list until the 200 ms timeout fires.
removeCourse(id) ==
    /\ id \in RowIds
    /\ timers' = timers \cup {Timeout(id, TRUE)}
    /\ last' = NoLast
    /\ UNCHANGED <<state, courseList, form, display>>

\* row.remove() on a detached element changes nothing.
removeCourseTimeout(t) ==
    /\ t \in timers
    /\ timers' = timers \ {t}
    /\ courseList' = IF t.attached
                     THEN SelectSeq(courseList, LAMBDA row : row.id # t.id)
                     ELSE courseList
    /\ display' = IF Len(courseList') = 0
                  THEN [display EXCEPT !.emptyMessage = "block"]
                  ELSE display
    /\ last' = NoLast
    /\ UNCHANGED <<state, form>>

SetRow(i, row) ==
    /\ courseList' = [courseList EXCEPT ![i] = row]
    /\ last' = NoLast
    /\ UNCHANGED <<state, timers, form, display>>

enterCredits(i, v) == SetRow(i, [courseList[i] EXCEPT !.credits = v])

\* The grade container is rebuilt: the other input is gone and the new one is empty.
toggleGradeInput(i, type) ==
    SetRow(i, IF type = "numeric"
              THEN [courseList[i] EXCEPT !.gradeType = type, !.score = EmptyStr, !.letter = ""]
              ELSE [courseList[i] EXCEPT !.gradeType = type, !.score = Undefined, !.letter = ""])

selectLetter(i, l) ==
    /\ courseList[i].gradeType = "letter"
    /\ SetRow(i, [courseList[i] EXCEPT !.letter = l])

enterScore(i, v) ==
    /\ courseList[i].gradeType = "numeric"
    /\ SetRow(i, [courseList[i] EXCEPT !.score = v])

checkExcluded(i, b) == SetRow(i, [courseList[i] EXCEPT !.excluded = b])

checkRepeated(i, b) == SetRow(i, [courseList[i] EXCEPT !.repeated = b])

handleModeChange(value) ==
    /\ state' = [state EXCEPT !.mode = value]
    /\ last' = NoLast
    /\ UNCHANGED <<courseList, timers, form, display>>

\* The previous-record section is shown in CGPA mode only.
enterPrevious(field, v) ==
    /\ state.mode = "cgpa"
    /\ form' = [form EXCEPT ![field] = v]
    /\ last' = NoLast
    /\ UNCHANGED <<state, courseList, timers, display>>

\* Variant: the all-excluded check is missing.
calculate_NoExcludedCheck ==
    LET courses   == collectCourseData(courseList)
        allErrors == validateCourses(courses) \o validateCGPAInputs(state.mode, form)
        includedCourses == SelectSeq(courses, LAMBDA c : ~c.excluded)
        termResult == computeTermGPA(courses)
        prevCGPA    == OrZero(parseFloat(form.prevCGPA))
        prevCredits == OrZero(parseFloat(form.prevCredits))
        cgpaResult == computeNewCGPA(prevCGPA, prevCredits,
                          termResult.totalQualityPoints, termResult.totalCredits, Null)
        termOnly == [termResult |-> termResult, gpa |-> termResult.gpa]
        result == IF state.mode = "cgpa"
                  THEN Spread(termOnly,
                           Spread(cgpaResult,
                               [prevCGPA |-> prevCGPA, prevCredits |-> prevCredits]))
                  ELSE termOnly
        allExcluded == <<Message(0,
            "All courses are excluded. Cannot calculate GPA with no included courses.")>>
    IN  /\ IF Len(allErrors) > 0
           THEN /\ display' = showErrors(display, allErrors)
                /\ last' = [op |-> "calculate", outcome |-> "errors", courses |-> courses,
                            errors |-> allErrors, result |-> << >>]
           ELSE /\ display' = renderResults(display)
                /\ last' = [op |-> "calculate", outcome |-> "rendered", courses |-> courses,
                            errors |-> << >>, result |-> <<result>>]
        /\ UNCHANGED <<state, courseList, timers, form>>

calculate ==
    LET courses   == collectCourseData(courseList)
        allErrors == validateCourses(courses) \o validateCGPAInputs(state.mode, form)
        includedCourses == SelectSeq(courses, LAMBDA c : ~c.excluded)
        termResult == computeTermGPA(courses)
        prevCGPA    == OrZero(parseFloat(form.prevCGPA))
        prevCredits == OrZero(parseFloat(form.prevCredits))
        cgpaResult == computeNewCGPA(prevCGPA, prevCredits,
                          termResult.totalQualityPoints, termResult.totalCredits, Null)
        termOnly == [termResult |-> termResult, gpa |-> termResult.gpa]
        result == IF state.mode = "cgpa"
                  THEN Spread(termOnly,
                           Spread(cgpaResult,
                               [prevCGPA |-> prevCGPA, prevCredits |-> prevCredits]))
                  ELSE termOnly
        allExcluded == <<Message(0,
            "All courses are excluded. Cannot calculate GPA with no included courses.")>>
    IN  /\ IF Len(allErrors) > 0
           THEN /\ display' = showErrors(display, allErrors)
                /\ last' = [op |-> "calculate", outcome |-> "errors", courses |-> courses,
                            errors |-> allErrors, result |-> << >>]
           ELSE IF Len(includedCourses) = 0
           THEN /\ display' = showErrors(display, allExcluded)
                /\ last' = [op |-> "calculate", outcome |-> "errors", courses |-> courses,
                            errors |-> allExcluded, result |-> << >>]
           ELSE /\ display' = renderResults(display)
                /\ last' = [op |-> "calculate", outcome |-> "rendered", courses |-> courses,
                            errors |-> << >>, result |-> <<result>>]
        /\ UNCHANGED <<state, courseList, timers, form>>

resetCalculator(confirmed) ==
    /\ IF ~confirmed THEN UNCHANGED <<state, courseList, timers, form, display>>
       ELSE /\ courseList' = << >>
            /\ state' = [state EXCEPT !.courseCounter = 0, !.mode = "term"]
            /\ form' = [form EXCEPT !.prevCGPA = EmptyStr, !.prevCredits = EmptyStr]
            /\ display' = [resultsSection |-> "none", errorMessage |-> FALSE,
                           emptyMessage |-> "block"]
            \* Pending timeouts now hold rows detached by innerHTML = ''.
            /\ timers' = {Timeout(t.id, FALSE) : t \in timers}
    /\ last' = NoLast

\* The CSV text itself is formatting; the record keeps the figures it is built from.
exportCSV ==
    LET courses    == collectCourseData(courseList)
        termResult == computeTermGPA(courses)
        prevCGPA    == OrZero(parseFloat(form.prevCGPA))
        prevCredits == OrZero(parseFloat(form.prevCredits))
        cgpaResult == computeNewCGPA(prevCGPA, prevCredits,
                          termResult.totalQualityPoints, termResult.totalCredits, Undefined)
        termOnly == [termResult |-> termResult, gpa |-> termResult.gpa]
        result == IF state.mode = "cgpa"
                  THEN Spread(termOnly,
                           Spread(cgpaResult,
                               [prevCGPA |-> prevCGPA, prevCredits |-> prevCredits]))
                  ELSE termOnly
    IN  /\ IF Len(courses) = 0
           THEN last' = [op |-> "exportCSV", outcome |-> "alert", courses |-> courses,
                         errors |-> << >>, result |-> << >>]
           ELSE last' = [op |-> "exportCSV", outcome |-> "download", courses |-> courses,
                         errors |-> << >>, result |-> <<result>>]
        /\ UNCHANGED <<state, courseList, timers, form, display>>

\* DOMContentLoaded: the listeners are installed and the first course row is added.
InitPage ==
    /\ call = [fn |-> "none", args |-> << >>]
    /\ ret = << >>
    /\ state = [mode |-> "term", courses |-> << >>, courseCounter |-> 1]
    /\ courseList = <<createCourseRow(1)>>
    /\ timers = {}
    /\ form = [prevCGPA |-> EmptyStr, prevCredits |-> EmptyStr,
               prevQualityPoints |-> EmptyStr]
    /\ display = [resultsSection |-> "none", errorMessage |-> FALSE,
                  emptyMessage |-> "none"]
    /\ last = NoLast

NextPage ==
    \/ state.courseCounter < MaxCounter /\ addCourse /\ UNCHANGED engineVars
    \/ \E id \in RowIds : removeCourse(id) /\ UNCHANGED engineVars
    \/ \E t \in timers : removeCourseTimeout(t) /\ UNCHANGED engineVars
    \/ \E i \in RowIndexes, v \in CreditValues : enterCredits(i, v) /\ UNCHANGED engineVars
    \/ \E i \in RowIndexes, type \in {"numeric", "letter"} :
          toggleGradeInput(i, type) /\ UNCHANGED engineVars
    \/ \E i \in RowIndexes, l \in LetterValues : selectLetter(i, l) /\ UNCHANGED engineVars
    \/ \E i \in RowIndexes, v \in ScoreValues : enterScore(i, v) /\ UNCHANGED engineVars
    \/ \E i \in RowIndexes, b \in BOOLEAN : checkExcluded(i, b) /\ UNCHANGED engineVars
    \/ \E i \in RowIndexes, b \in BOOLEAN : checkRepeated(i, b) /\ UNCHANGED engineVars
    \/ \E value \in {"term", "cgpa"} : handleModeChange(value) /\ UNCHANGED engineVars
    \/ \E v \in PrevCGPAValues : enterPrevious("prevCGPA", v) /\ UNCHANGED engineVars
    \/ \E v \in PrevCreditsValues : enterPrevious("prevCredits", v) /\ UNCHANGED engineVars
    \/ \E v \in PrevQualityPointsValues :
          enterPrevious("prevQualityPoints", v) /\ UNCHANGED engineVars
    \/ calculate /\ UNCHANGED engineVars
    \/ exportCSV /\ UNCHANGED engineVars
    \/ \E confirmed \in BOOLEAN : resetCalculator(confirmed) /\ UNCHANGED engineVars

SpecPage == InitPage /\ [][NextPage]_vars

(***************************************************************************)
(* The page, filled in with values inside and outside the accepted ranges  *)
(* (no course is removed)                                                   *)
(***************************************************************************)
FormCreditValues == {EmptyStr, Str(3, 1), Str(7, 1)}

FormScoreValues == {EmptyStr, Str(98, 1), Str(101, 1)}

FormPrevCGPAValues == {EmptyStr, Str(4, 1), Str(5, 1)}

FormPrevCreditsValues == {EmptyStr, Str(30, 1), Str(-1, 1)}

NextForm ==
    \/ state.courseCounter < MaxCounter /\ addCourse /\ UNCHANGED engineVars
    \/ \E i \in RowIndexes, v \in FormCreditValues : enterCredits(i, v) /\ UNCHANGED engineVars
    \/ \E i \in RowIndexes, type \in {"numeric", "letter"} :
          toggleGradeInput(i, type) /\ UNCHANGED engineVars
    \/ \E i \in RowIndexes, l \in LetterValues : selectLetter(i, l) /\ UNCHANGED engineVars
    \/ \E i \in RowIndexes, v \in FormScoreValues : enterScore(i, v) /\ UNCHANGED engineVars
    \/ \E i \in RowIndexes, b \in BOOLEAN : checkExcluded(i, b) /\ UNCHANGED engineVars
    \/ \E i \in RowIndexes, b \in BOOLEAN : checkRepeated(i, b) /\ UNCHANGED engineVars
    \/ \E value \in {"term", "cgpa"} : handleModeChange(value) /\ UNCHANGED engineVars
    \/ \E v \in FormPrevCGPAValues : enterPrevious("prevCGPA", v) /\ UNCHANGED engineVars
    \/ \E v \in FormPrevCreditsValues : enterPrevious("prevCredits", v) /\ UNCHANGED engineVars
    \/ calculate /\ UNCHANGED engineVars
    \/ exportCSV /\ UNCHANGED engineVars
    \/ \E confirmed \in BOOLEAN : resetCalculator(confirmed) /\ UNCHANGED engineVars

SpecForm == InitPage /\ [][NextForm]_vars

(***************************************************************************)
(* The page as courses are added and removed                               *)
(***************************************************************************)
MaxRowCounter == 3

NextRows ==
    \/ state.courseCounter < MaxRowCounter /\ addCourse /\ UNCHANGED engineVars
    \/ \E id \in RowIds : removeCourse(id) /\ UNCHANGED engineVars
    \/ \E t \in timers : removeCourseTimeout(t) /\ UNCHANGED engineVars
    \/ \E i \in RowIndexes, v \in CreditValues : enterCredits(i, v) /\ UNCHANGED engineVars
    \/ calculate /\ UNCHANGED engineVars
    \/ exportCSV /\ UNCHANGED engineVars
    \/ \E confirmed \in BOOLEAN : resetCalculator(confirmed) /\ UNCHANGED engineVars

SpecRows == InitPage /\ [][NextRows]_vars

(***************************************************************************)
(* Properties of the engine functions                                      *)
(***************************************************************************)
CourseRowsIn == call.args[1]

CoursesOut == ret[1].courses

BPlus == Num(10, 3)

CanonicalGradePoints ==
    {Num(0, 1), Num(5, 3), Num(2, 1), Num(7, 3), Num(8, 3), Num(3, 1),
     Num(10, 3), Num(11, 3), Num(4, 1)}

\* C1: every non-excluded repeated record whose resolved grade point is
\* strictly above 10/3 is emitted with gradePoint exactly 10/3, letter B+,
\* wasCapped = true, status 'capped' and qualityPoints = credits * 10/3.
C1_RepeatCapExact ==
    Returned("computeTermGPA") =>
        \A i \in 1..Len(CourseRowsIn) :
            LET c == CourseRowsIn[i]
                o == CoursesOut[i]
            IN  (~c.excluded /\ c.repeated /\ Gt(c.gradePoint, BPlus)) =>
                    /\ o.gradePoint = BPlus
                    /\ o.letter = "B+"
                    /\ o.wasCapped = TRUE
                    /\ o.status = "capped"
                    /\ o.qualityPoints = Mul(c.credits, BPlus)

\* C2: the repeat cap is a no-op for every non-excluded repeated record whose
\* resolved grade point is at most 10/3: grade point and letter unchanged,
\* wasCapped = false, status 'included', qualityPoints = credits * grade point.
C2_RepeatCapNoOp ==
    Returned("computeTermGPA") =>
        \A i \in 1..Len(CourseRowsIn) :
            LET c == CourseRowsIn[i]
                o == CoursesOut[i]
            IN  (~c.excluded /\ c.repeated /\ Le(c.gradePoint, BPlus)) =>
                    /\ o.gradePoint = c.gradePoint
                    /\ o.letter = c.letter
                    /\ o.wasCapped = FALSE
                    /\ o.status = "included"
                    /\ o.qualityPoints = Mul(c.credits, c.gradePoint)

\* C3: every non-excluded output record of computeTermGPA has a grade point
\* among the nine canonical grade points, whatever the repeated flag.
C3_CanonicalGradePoints ==
    Returned("computeTermGPA") =>
        \A i \in 1..Len(CourseRowsIn) :
            ~CourseRowsIn[i].excluded => CoursesOut[i].gradePoint \in CanonicalGradePoints

\* The documented grade table: scores in [lo, hi) map to (letter, point); the
\* top row also contains its upper end 100.
GradeTable ==
    { [lo |-> 95, hi |-> 100, letter |-> "A",  point |-> Num(4, 1)],
      [lo |-> 90, hi |-> 95,  letter |-> "A-", point |-> Num(11, 3)],
      [lo |-> 85, hi |-> 90,  letter |-> "B+", point |-> Num(10, 3)],
      [lo |-> 80, hi |-> 85,  letter |-> "B",  point |-> Num(3, 1)],
      [lo |-> 75, hi |-> 80,  letter |-> "B-", point |-> Num(8, 3)],
      [lo |-> 70, hi |-> 75,  letter |-> "C+", point |-> Num(7, 3)],
      [lo |-> 65, hi |-> 70,  letter |-> "C",  point |-> Num(2, 1)],
      [lo |-> 60, hi |-> 65,  letter |-> "C-", point |-> Num(5, 3)],
      [lo |-> 0,  hi |-> 60,  letter |-> "F",  point |-> Num(0, 1)] }

InTableRow(s, r) ==
    /\ Ge(s, Num(r.lo, 1))
    /\ \/ Lt(s, Num(r.hi, 1))
       \/ r.hi = 100 /\ s = Num(100, 1)

LetterBoundaries == {60, 65, 70, 75, 80, 85, 90, 95}

InScoreRange(s) == s.t = "number" /\ Ge(s, Num(0, 1)) /\ Le(s, Num(100, 1))

\* C4: for every score in [0,100] mapNumericToGradePoint returns the row of
\* the documented threshold table that contains the score, and each boundary
\* b in 60, 65, ..., 95 gets a letter different from that of b - 1.
C4_ThresholdTable ==
    (Returned("mapNumericToGradePoint") /\ InScoreRange(call.args[1])) =>
        /\ \E r \in GradeTable :
              /\ InTableRow(call.args[1], r)
              /\ ret[1] = [letter |-> r.letter, point |-> r.point]
        /\ \A b \in LetterBoundaries :
              call.args[1] = Num(b, 1) =>
                  ret[1].letter # mapNumericToGradePoint(Num(b - 1, 1)).letter

\* C4 witness: the boundary score 95 has been mapped to (A, 4).
C4_Witness ==
    /\ Returned("mapNumericToGradePoint")
    /\ call.args[1] = Num(95, 1)
    /\ ret[1] = [letter |-> "A", point |-> Num(4, 1)]

RECURSIVE SumIncludedCredits(_, _)
SumIncludedCredits(rows, i) ==
    IF i = 0 THEN Num(0, 1)
    ELSE Add(SumIncludedCredits(rows, i - 1),
             IF rows[i].excluded THEN Num(0, 1) ELSE rows[i].credits)

RECURSIVE SumIncludedQP(_, _, _)
SumIncludedQP(rows, out, i) ==
    IF i = 0 THEN Num(0, 1)
    ELSE Add(SumIncludedQP(rows, out, i - 1),
             IF rows[i].excluded THEN Num(0, 1)
             ELSE Mul(rows[i].credits, out[i].gradePoint))

\* C5: totalCredits is the sum of credits over the non-excluded records and
\* totalQualityPoints the sum of credits * emitted grade point over them; an
\* excluded record, repeated or not, adds nothing and is still emitted, in
\* place, with qualityPoints = 0 and status 'excluded'.
C5_TotalsOverIncluded ==
    Returned("computeTermGPA") =>
        /\ Len(CoursesOut) = Len(CourseRowsIn)
        /\ ret[1].totalCredits = SumIncludedCredits(CourseRowsIn, Len(CourseRowsIn))
        /\ ret[1].totalQualityPoints =
               SumIncludedQP(CourseRowsIn, CoursesOut, Len(CourseRowsIn))
        /\ \A i \in 1..Len(CourseRowsIn) :
              CourseRowsIn[i].excluded =>
                  /\ CoursesOut[i].id = CourseRowsIn[i].id
                  /\ CoursesOut[i].qualityPoints = Num(0, 1)
                  /\ CoursesOut[i].status = "excluded"

\* C5 witness: a term with an excluded repeated course and an included one
\* has been aggregated.
C5_Witness ==
    /\ Returned("computeTermGPA")
    /\ \E i, j \in 1..Len(CourseRowsIn) :
          /\ CourseRowsIn[i].excluded /\ CourseRowsIn[i].repeated
          /\ ~CourseRowsIn[j].excluded
          /\ ret[1].totalCredits = CourseRowsIn[j].credits

AllExcluded(rows) == \A i \in 1..Len(rows) : rows[i].excluded

\* C6: gpa = totalQualityPoints / totalCredits when totalCredits > 0 and 0
\* otherwise; an empty list and an all-excluded list give totals 0 and gpa 0,
\* never NaN.
C6_GpaOrZero ==
    Returned("computeTermGPA") =>
        /\ ~IsNaN(ret[1].gpa)
        /\ Gt(ret[1].totalCredits, Num(0, 1)) =>
               Mul(ret[1].gpa, ret[1].totalCredits) = ret[1].totalQualityPoints
        /\ ~Gt(ret[1].totalCredits, Num(0, 1)) => ret[1].gpa = Num(0, 1)
        /\ AllExcluded(CourseRowsIn) =>
               /\ ret[1].totalCredits = Num(0, 1)
               /\ ret[1].totalQualityPoints = Num(0, 1)
               /\ ret[1].gpa = Num(0, 1)

\* C6 witness: a non-empty list of excluded courses only has been aggregated.
C6_Witness ==
    /\ Returned("computeTermGPA")
    /\ Len(CourseRowsIn) > 0
    /\ AllExcluded(CourseRowsIn)
    /\ ret[1].gpa = Num(0, 1)

ExplicitPrevQP == call.args[5].t \notin {"undefined", "null"}

\* C7: computeNewCGPA returns totalCredits = prevCredits + termCredits,
\* totalQualityPoints = previous quality points + termQualityPoints, and
\* cgpa = totalQualityPoints / totalCredits when totalCredits > 0, else 0.
C7_CumulativeTotals ==
    Returned("computeNewCGPA") =>
        LET previousQualityPoints ==
                IF ExplicitPrevQP THEN call.args[5]
                ELSE Mul(call.args[1], call.args[2])
        IN  /\ ret[1].totalCredits = Add(call.args[2], call.args[4])
            /\ ret[1].totalQualityPoints = Add(previousQualityPoints, call.args[3])
            /\ Gt(ret[1].totalCredits, Num(0, 1)) =>
                   Mul(ret[1].cgpa, ret[1].totalCredits) = ret[1].totalQualityPoints
            /\ ~Gt(ret[1].totalCredits, Num(0, 1)) => ret[1].cgpa = Num(0, 1)

\* C7 witness: prevCGPA 3, prevCredits 30, term 3 credits / 11 quality points
\* combined into 33 credits, 101 quality points, cgpa 101/33.
C7_Witness ==
    /\ Returned("computeNewCGPA")
    /\ call.args = <<Num(3, 1), Num(30, 1), Num(11, 1), Num(3, 1), Null>>
    /\ ret[1].totalCredits = Num(33, 1)
    /\ ret[1].totalQualityPoints = Num(101, 1)
    /\ ret[1].cgpa = Num(101, 33)

\* C8: an explicit non-null previous-quality-points argument (0 included) is
\* returned verbatim as prevQualityPoints and prevCGPA has no influence on
\* the result; a null or omitted argument gives prevCGPA * prevCredits.
C8_ExplicitPrevQPWins ==
    Returned("computeNewCGPA") =>
        /\ ExplicitPrevQP =>
              /\ ret[1].prevQualityPoints = call.args[5]
              /\ \A g \in {Num(0, 1), Num(3, 1), Num(4, 1)} :
                    computeNewCGPA(g, call.args[2], call.args[3],
                                   call.args[4], call.args[5]) = ret[1]
        /\ ~ExplicitPrevQP =>
              ret[1].prevQualityPoints = Mul(call.args[1], call.args[2])

\* C8 witness: explicit previous quality points 0 with prevCGPA * prevCredits = 90.
C8_Witness ==
    /\ Returned("computeNewCGPA")
    /\ call.args[5] = Num(0, 1)
    /\ Mul(call.args[1], call.args[2]) = Num(90, 1)
    /\ ret[1].prevQualityPoints = Num(0, 1)

TimesThree ==
    [l \in Letters |->
        CASE l = "A" -> 12 [] l = "A-" -> 11 [] l = "B+" -> 10 [] l = "B" -> 9
          [] l = "B-" -> 8 [] l = "C+" -> 7 [] l = "C" -> 6 [] l = "C-" -> 5
          [] l = "F" -> 0]

\* C10: for each canonical letter, mapLetterToGradePoint(letter) * 3 is the
\* integer 12, 11, 10, 9, 8, 7, 6, 5, 0, and the value is the grade point
\* mapNumericToGradePoint gives to every score it maps to that letter.
C10_LetterTimesThree ==
    (Returned("mapLetterToGradePoint") /\ call.args[1] \in Letters) =>
        /\ ret[1].t = "number"
        /\ Mul(ret[1], Num(3, 1)) = Num(TimesThree[call.args[1]], 1)
        /\ \A k \in ScoreMin..ScoreMax :
              mapNumericToGradePoint(Num(k, 1)).letter = call.args[1] =>
                  mapNumericToGradePoint(Num(k, 1)).point = ret[1]

\* C10 witness: the letter A- has been mapped to 11/3.
C10_Witness ==
    /\ Returned("mapLetterToGradePoint")
    /\ call.args[1] = "A-"
    /\ ret[1] = Num(11, 3)

\* C11: for every input that is not one of the nine canonical letters (the
\* empty string, lowercase variants, names of built-in object properties),
\* mapLetterToGradePoint returns the number 0.
C11_UnknownLetterIsZero ==
    (Returned("mapLetterToGradePoint") /\ call.args[1] \notin Letters) =>
        ret[1] = Num(0, 1)

\* C12: mapNumericToGradePoint is total: a non-number or NaN gives
\* ('Invalid', 0), a number below 0 gives ('F', 0) and a number above 100
\* gives ('A', 4).
C12_TotalOnAnyInput ==
    Returned("mapNumericToGradePoint") =>
        LET score == call.args[1]
        IN  /\ (score.t # "number" \/ score = NaN) =>
                   ret[1] = [letter |-> "Invalid", point |-> Num(0, 1)]
            /\ (score.t = "number" /\ Lt(score, Num(0, 1))) =>
                   ret[1] = [letter |-> "F", point |-> Num(0, 1)]
            /\ (score.t = "number" /\ Gt(score, Num(100, 1))) =>
                   ret[1] = [letter |-> "A", point |-> Num(4, 1)]

\* C12 witness: NaN has been mapped to ('Invalid', 0).
C12_Witness ==
    /\ Returned("mapNumericToGradePoint")
    /\ call.args[1] = NaN
    /\ ret[1] = [letter |-> "Invalid", point |-> Num(0, 1)]

\* The violations of one course: credits not above 0, credits above 6, and,
\* unless it is excluded, no valid grade (numeric: a score in [0,100];
\* letter: a selected letter).
Violations(course) ==
    (IF ~Gt(course.credits, Num(0, 1)) THEN {"creditsLow"} ELSE {})
    \cup (IF Gt(course.credits, Num(6, 1)) THEN {"creditsHigh"} ELSE {})
    \cup (IF course.excluded THEN {}
          ELSE IF course.gradeType = "numeric"
               THEN (IF course.score.t = "number" /\ ~IsNaN(course.score)
                        /\ Ge(course.score, Num(0, 1)) /\ Le(course.score, Num(100, 1))
                     THEN {} ELSE {"grade"})
               ELSE (IF course.letter # "" THEN {} ELSE {"grade"}))

PassesValidation(courses) ==
    /\ Len(courses) > 0
    /\ \A i \in 1..Len(courses) : Violations(courses[i]) = {}

RECURSIVE CountViolations(_, _)
CountViolations(courses, i) ==
    IF i = 0 THEN 0
    ELSE CountViolations(courses, i - 1) + Cardinality(Violations(courses[i]))

MessagesFor(errors, i) == {k \in 1..Len(errors) : errors[k].course = i}

\* C15: validateCourses returns no error exactly when the list is non-empty,
\* every course has 0 < credits <= 6 and every non-excluded course has a
\* valid grade; otherwise it returns one message per violation of every
\* course, and exactly one message for an empty list.
C15_ValidateCollectsAll ==
    Returned("validateCourses") =>
        LET courses == call.args[1]
            errors  == ret[1]
        IN  /\ (errors = << >>) <=> PassesValidation(courses)
            /\ Len(courses) = 0 => Len(errors) = 1
            /\ Len(courses) > 0 =>
                  /\ Len(errors) = CountViolations(courses, Len(courses))
                  /\ \A i \in 1..Len(courses) :
                        Cardinality(MessagesFor(errors, i)) =
                            Cardinality(Violations(courses[i]))

\* C15 witness: two courses with three violations between them (one of them
\* excluded with credits out of range) have been validated.
C15_Witness ==
    /\ Returned("validateCourses")
    /\ Len(call.args[1]) = 2
    /\ call.args[1][1].excluded /\ Violations(call.args[1][1]) = {"creditsHigh"}
    /\ Violations(call.args[1][2]) = {"creditsLow", "grade"}
    /\ Len(ret[1]) = 3

(***************************************************************************)
(* Properties of the page                                                  *)
(***************************************************************************)
\* calculate or exportCSV has just carried out a calculation in CGPA mode.
CalculatedInCGPAMode ==
    /\ last.op \in {"calculate", "exportCSV"}
    /\ last.outcome \in {"rendered", "download"}
    /\ state.mode = "cgpa"

\* C9: in CGPA mode, when the user has provided a Previous Quality Points
\* value, the calculation of calculate and of exportCSV uses that value as
\* the previous quality points, ahead of Previous CGPA * Previous Credits.
C9_ProvidedPrevQPUsed ==
    (CalculatedInCGPAMode /\ form.prevQualityPoints # EmptyStr) =>
        last.result[1].prevQualityPoints = parseFloat(form.prevQualityPoints)

\* calculate or exportCSV has just called computeTermGPA.
EngineInvoked ==
    /\ last.op \in {"calculate", "exportCSV"}
    /\ last.outcome \in {"rendered", "download"}

\* C13: calculate and exportCSV call computeTermGPA only after the collected
\* course list has passed validation: it is non-empty, every record has
\* credits in (0, 6] and every non-excluded record has a score in [0,100] or
\* a selected letter.
C13_EngineOnlyAfterValidation ==
    EngineInvoked => PassesValidation(last.courses)

SomeIncluded(courses) == \E i \in 1..Len(courses) : ~courses[i].excluded

CalculateMayRender ==
    /\ validateCourses(last.courses) = << >>
    /\ validateCGPAInputs(state.mode, form) = << >>
    /\ SomeIncluded(last.courses)

\* C14: calculate renders results only if validateCourses and
\* validateCGPAInputs return no errors and some collected course is not
\* excluded; otherwise it shows the error messages, hides the results
\* section and produces no result.
C14_RenderOnlyWhenValid ==
    last.op = "calculate" =>
        /\ last.outcome = "rendered" <=> CalculateMayRender
        /\ last.outcome = "rendered" =>
              /\ display.resultsSection = "block"
              /\ ~display.errorMessage
              /\ Len(last.result) = 1
        /\ ~CalculateMayRender =>
              /\ last.outcome = "errors"
              /\ Len(last.errors) > 0
              /\ display.errorMessage
              /\ display.resultsSection = "none"
              /\ last.result = << >>

\* C14 witness: calculate has refused a valid list whose courses are all excluded.
C14_Witness ==
    /\ last.op = "calculate"
    /\ last.outcome = "errors"
    /\ PassesValidation(last.courses)
    /\ ~SomeIncluded(last.courses)
    /\ display.errorMessage
    /\ display.resultsSection = "none"

InUnitRange(x) == Ge(x, Num(0, 1)) /\ Le(x, Num(4, 1))

\* C16: whenever calculate reaches renderResults, the term result has
\* totalCredits > 0 and 0 <= gpa <= 4, and in CGPA mode the combined result
\* has totalCredits > 0 and 0 <= cgpa <= 4.
C16_RenderedGpaInRange ==
    (last.op = "calculate" /\ last.outcome = "rendered") =>
        LET result == last.result[1]
        IN  /\ Gt(result.termResult.totalCredits, Num(0, 1))
            /\ InUnitRange(result.termResult.gpa)
            /\ result.gpa = result.termResult.gpa
            /\ state.mode = "cgpa" =>
                  /\ Gt(result.totalCredits, Num(0, 1))
                  /\ InUnitRange(result.cgpa)

\* C16 witness: in CGPA mode, previous CGPA 4 over 30 credits and an A have
\* been rendered as CGPA 4.
C16_Witness ==
    /\ last.op = "calculate" /\ last.outcome = "rendered"
    /\ state.mode = "cgpa"
    /\ last.result[1].prevCGPA = Num(4, 1)
    /\ last.result[1].prevCredits = Num(30, 1)
    /\ last.result[1].cgpa = Num(4, 1)


\* C17: the ids of the rows present in the course list are pairwise distinct and
\* each lies between 1 and state.courseCounter, whatever sequence of addCourse,
\* removeCourse, its delayed callback and confirmed or cancelled resets ran.
C17_RowIdsDistinct ==
    /\ \A i, j \in RowIndexes : courseList[i].id = courseList[j].id => i = j
    /\ \A i \in RowIndexes :
          courseList[i].id >= 1 /\ courseList[i].id <= state.courseCounter

\* Two rows are present after an earlier row was removed by its callback.
C17_Witness ==
    /\ Len(courseList) = 2
    /\ state.courseCounter = 3
    /\ RowIds # {3, 2}

\* C18: a calculate or exportCSV that runs after removeCourse(id) was invoked on a
\* row collects no record of that row, also while the row's timeout is pending.
C18_RemovedCourseNotCollected ==
    last.op \in {"calculate", "exportCSV"} =>
        \A i \in 1..Len(last.courses) :
            Timeout(last.courses[i].id, TRUE) \notin timers
=============================================================================
